---- MODULE Spec2Model ----
(***************************************************************************)
(* Single-node K3s / Rancher bootstrap (bootstrap/bootstrap.py).           *)
(*                                                                         *)
(* The program is one sequential process.  Its state is the position `pc`  *)
(* in BootstrapOrchestrator.run, the locals of the three wait loops, and   *)
(* the host it acts on (files, binaries on the PATH, the helm release).    *)
(* External commands are opaque: an action draws their outcome with \E.    *)
(* Text that the code parses (kubectl output) is kept as sequences of      *)
(* one-character strings so that strip / splitlines / `in` are computed    *)
(* the way the code computes them.                                         *)
(***************************************************************************)
EXTENDS Integers, Sequences, FiniteSets, TLC

(* ------------------------------ bounds -------------------------------- *)
\* number of process invocations on the same host
MaxRuns == 2
\* number of cluster nodes a node listing may show
MaxNodes == 2
\* number of pods a pod listing may show
MaxPods == 2

(* ------------------------- program constants -------------------------- *)
\* for _ in range(60)
MaxAttempts == 60
\* wait_ready(timeout_sec = 300)
TimeoutSec == 300
\* time.sleep(3) of the pod-phase loop
PodSleepSec == 3

(* ----------------------------- text helpers --------------------------- *)
ReadyStr == <<"R", "e", "a", "d", "y">>
NotReadyStr == <<"N", "o", "t", "R", "e", "a", "d", "y">>
RunningStr == <<"R", "u", "n", "n", "i", "n", "g">>
PendingStr == <<"P", "e", "n", "d", "i", "n", "g">>
NL == "\n"
Whitespace == {" ", "\t", NL}

\* statuses a node line of `kubectl get nodes --no-headers` may carry
NodeStatuses == {"Ready", "NotReady"}
\* values of .status.phase the pod listing may carry
PodPhases == {"Running", "Pending"}

StatusChars(st) == IF st = "Ready" THEN ReadyStr ELSE NotReadyStr
PhaseChars(ph) == IF ph = "Running" THEN RunningStr ELSE PendingStr

\* all sequences over S of length 0..n
SeqsUpTo(S, n) == UNION {[1..k -> S] : k \in 0..n}

\* stdout of `k3s kubectl get nodes --no-headers`: "<name>   <status>   ...\n" per node
RECURSIVE NodesStdout(_)
NodesStdout(obs) ==
    IF obs = <<>> THEN <<>>
    ELSE <<"n", " ">> \o StatusChars(Head(obs)) \o <<" ", "x", NL>> \o NodesStdout(Tail(obs))

\* stdout of the jsonpath pod query: "<phase>\n" per pod
RECURSIVE PodsStdout(_)
PodsStdout(obs) ==
    IF obs = <<>> THEN <<>>
    ELSE PhaseChars(Head(obs)) \o <<NL>> \o PodsStdout(Tail(obs))

\* str.strip()
RECURSIVE LStrip(_)
LStrip(s) == IF s # <<>> /\ Head(s) \in Whitespace THEN LStrip(Tail(s)) ELSE s
RECURSIVE RStrip(_)
RStrip(s) ==
    IF s # <<>> /\ s[Len(s)] \in Whitespace THEN RStrip(SubSeq(s, 1, Len(s) - 1)) ELSE s
Strip(s) == RStrip(LStrip(s))

\* str.splitlines()
RECURSIVE SplitLines(_)
SplitLines(s) ==
    IF s = <<>> THEN <<>>
    ELSE IF \E i \in 1..Len(s) : s[i] = NL
         THEN LET i == CHOOSE j \in 1..Len(s) :
                          s[j] = NL /\ \A k \in 1..(j - 1) : s[k] # NL
              IN  <<SubSeq(s, 1, i - 1)>> \o SplitLines(SubSeq(s, i + 1, Len(s)))
         ELSE <<s>>

\* `sub in s` on str
Contains(sub, s) ==
    \E i \in 0..(Len(s) - Len(sub)) : SubSeq(s, i + 1, i + Len(sub)) = sub

\* sum(1 for l in lines if "Ready" in l)
ReadyCount(lines) == Cardinality({i \in 1..Len(lines) : Contains(ReadyStr, lines[i])})

\* [p.strip() for p in stdout.splitlines() if p.strip()]
Phases(stdout) ==
    LET raw == SplitLines(stdout)
    IN  SelectSeq([i \in 1..Len(raw) |-> Strip(raw[i])], LAMBDA p : p # <<>>)

\* total > 0 and ready == total
NodesConverged(stdout) ==
    LET lines == SplitLines(Strip(stdout))
    IN  Len(lines) > 0 /\ ReadyCount(lines) = Len(lines)

\* phases and all(p == "Running" for p in phases)
\* (variant: any() where the code has all())
PodsConvergedAny(stdout) ==
    LET phases == Phases(stdout)
    IN  phases # <<>> /\ \E i \in 1..Len(phases) : phases[i] = RunningStr
PodsConverged(stdout) ==
    LET phases == Phases(stdout)
    IN  phases # <<>> /\ \A i \in 1..Len(phases) : phases[i] = RunningStr

\* a `for _ in range(60)` loop has no iteration left after n iterations
\* (variant: one iteration too many)
RangeExhaustedLate(n) == n > MaxAttempts
RangeExhausted(n) == n >= MaxAttempts

\* the name `hostname` prints, and the first address `hostname -I` prints
HostName == <<"n", "o", "d", "e", "1">>
PrimaryIp == <<"1", "0", ".", "0", ".", "0", ".", "5">>
\* the line every hosts file starts with
LoopbackLine ==
    <<"1", "2", "7", ".", "0", ".", "0", ".", "1", " ",
      "l", "o", "c", "a", "l", "h", "o", "s", "t">>

\* [0-9A-Fa-f:.]
AddrChars == {"0", "1", "2", "3", "4", "5", "6", "7", "8", "9", "A", "B", "C", "D", "E",
              "F", "a", "b", "c", "d", "e", "f", ":", "."}

\* f"{ip} {hostname}"
HostsLine(ip, hostname) == ip \o <<" ">> \o hostname

\* one line against the pattern ^[0-9A-Fa-f:.]+\s+{hostname}(\s|$)
LineMatches(line, hostname) ==
    \E i \in 1..Len(line), j \in 1..Len(line) :
        /\ i < j
        /\ \A k \in 1..i : line[k] \in AddrChars
        /\ \A k \in (i + 1)..j : line[k] \in Whitespace
        /\ j + Len(hostname) <= Len(line)
        /\ SubSeq(line, j + 1, j + Len(hostname)) = hostname
        /\ \/ j + Len(hostname) = Len(line)
           \/ line[j + Len(hostname) + 1] \in Whitespace

\* grep -Eq pattern /etc/hosts: exit status 0 iff some line matches
GrepHosts(file, hostname) ==
    LET lines == SplitLines(file)
    IN  \E n \in 1..Len(lines) : LineMatches(lines[n], hostname)

\* bash -c "echo '{line}' >> /etc/hosts": the line and a newline go after the
\* last byte of the file
EchoAppend(file, line) == file \o line \o <<NL>>

\* hosts files a host may have before the first run: without the entry and
\* newline-terminated, without the entry and with an unterminated last line,
\* with the entry
InitialHostsFiles ==
    {LoopbackLine \o <<NL>>,
     LoopbackLine,
     LoopbackLine \o <<NL>> \o HostsLine(PrimaryIp, HostName) \o <<NL>>}

(* ------------------------------- state -------------------------------- *)
\* the host: persists from one process invocation to the next
VARIABLES hostsFile, k3sActive, kcfg, k3sBin, kubectlBin, shimExists,
          tmplExists, helmBin, release
\* the process
VARIABLES runNo, euidRoot, pc, exitCode, event, steps, satisfied,
          issued, polled, logged, envd, helmChecks, prevInstalled
\* what this run has observed: the outcome of the rollout-status check, and
\* which of the credential file and the package manager it has seen present
VARIABLES rollout, seen
\* locals of the credential-file wait
VARIABLES credProbes, credSleeps, credOk
\* locals and outcome of the node-readiness wait
VARIABLES nodeProbes, nodeSleeps, nodeObs, nodeRc, nodeConv, nodeResult
\* locals and outcome of the management-UI wait
VARIABLES elapsed, podProbes, podSleeps, podObs, podRc, podConv, podResult

hostVars == <<hostsFile, k3sActive, kcfg, k3sBin, kubectlBin, shimExists,
              tmplExists, helmBin, release>>
auditVars == <<issued, polled, logged, envd>>
credVars == <<credProbes, credSleeps, credOk>>
nodeVars == <<nodeProbes, nodeSleeps, nodeObs, nodeRc, nodeConv, nodeResult>>
podVars == <<elapsed, podProbes, podSleeps, podObs, podRc, podConv, podResult>>
procVars == <<runNo, euidRoot, pc, exitCode, event, steps, satisfied,
              helmChecks, prevInstalled, rollout, seen>>
vars == <<hostVars, auditVars, credVars, nodeVars, podVars, procVars>>

\* the two polled probe commands
Probes == {"k3s_get_nodes", "get_pods"}
\* every other external command the program spawns
ExternalCommands ==
    {"hostname_I", "hostname", "grep_hosts", "append_hosts", "systemctl_is_active",
     "k3s_installer", "mkdir_kube", "chown_kube", "chmod_kube", "cp_kubeconfig",
     "chown_dest", "chmod_dest", "kubectl_apply", "helm_installer", "helm_status",
     "helm_repo_add", "helm_repo_update", "helm_install", "rollout_status",
     "kubectl_get_nodes"}
\* plus the one action that is a file write, not a command
Commands == ExternalCommands \cup {"write_shim"}

\* the methods BootstrapOrchestrator.run calls after show_mode, in order
AllSteps == <<"ensure_hosts", "install_or_verify", "ensure_kubectl",
              "apply_bootstrap_yaml", "ensure_helm", "install", "wait_ready",
              "verify_cluster", "access", "final">>

Bump(f, S) == [c \in DOMAIN f |-> IF c \in S THEN f[c] + 1 ELSE f[c]]

\* spawn the commands `cmds`; `lg` of them go through run() and are logged
\* first, `ev` of them are given env=kube_env()
Spawn(cmds, lg, ev) ==
    /\ issued' = Bump(issued, cmds \cap Commands)
    /\ polled' = polled \cup (cmds \cap Probes)
    /\ logged' = logged \cup lg
    /\ envd' = envd \cup ev

\* sys.exit(code), or an exception nobody catches (code 1)
Abort(code, ev) ==
    /\ pc' = "done"
    /\ exitCode' = code
    /\ event' = ev

Goto(label) ==
    /\ pc' = label
    /\ UNCHANGED <<exitCode, event>>

Enter(step) == steps' = Append(steps, step)

\* the state of a process that has just been started
FreshProcess ==
    /\ pc = "start"
    /\ exitCode = -1
    /\ event = "none"
    /\ steps = <<>>
    /\ satisfied = {}
    /\ issued = [c \in Commands |-> 0]
    /\ polled = {}
    /\ logged = {}
    /\ envd = {}
    /\ helmChecks = 0
    /\ rollout = "none"
    /\ seen = {}
    /\ credProbes = 0 /\ credSleeps = 0 /\ credOk = FALSE
    /\ nodeProbes = 0 /\ nodeSleeps = 0 /\ nodeObs = <<>> /\ nodeRc = 0
    /\ nodeConv = FALSE /\ nodeResult = "none"
    /\ elapsed = 0 /\ podProbes = 0 /\ podSleeps = 0 /\ podObs = <<>> /\ podRc = 0
    /\ podConv = FALSE /\ podResult = "none"

\* ... as the next state
StartProcess ==
    /\ pc' = "start"
    /\ exitCode' = -1
    /\ event' = "none"
    /\ steps' = <<>>
    /\ satisfied' = {}
    /\ issued' = [c \in Commands |-> 0]
    /\ polled' = {}
    /\ logged' = {}
    /\ envd' = {}
    /\ helmChecks' = 0
    /\ rollout' = "none"
    /\ seen' = {}
    /\ credProbes' = 0 /\ credSleeps' = 0 /\ credOk' = FALSE
    /\ nodeProbes' = 0 /\ nodeSleeps' = 0 /\ nodeObs' = <<>> /\ nodeRc' = 0
    /\ nodeConv' = FALSE /\ nodeResult' = "none"
    /\ elapsed' = 0 /\ podProbes' = 0 /\ podSleeps' = 0 /\ podObs' = <<>> /\ podRc' = 0
    /\ podConv' = FALSE /\ podResult' = "none"

Init ==
    /\ hostsFile \in InitialHostsFiles
    /\ k3sActive \in BOOLEAN
    /\ kcfg \in BOOLEAN
    /\ k3sBin \in BOOLEAN
    /\ kubectlBin \in BOOLEAN
    /\ shimExists \in BOOLEAN
    /\ tmplExists \in BOOLEAN
    /\ helmBin \in BOOLEAN
    /\ release \in BOOLEAN
    /\ runNo = 1
    /\ euidRoot \in BOOLEAN
    /\ prevInstalled = FALSE
    /\ FreshProcess

(* ------------------------------ actions ------------------------------- *)
\* BootstrapOrchestrator.__init__ -> HostEnv.__init__ -> _detect_primary_ip
Construct ==
    /\ pc = "start"
    /\ Spawn({"hostname_I"}, {}, {})
    /\ Goto("require_sudo")
    /\ UNCHANGED <<hostVars, credVars, nodeVars, podVars, runNo, euidRoot, rollout, seen, steps,
                   satisfied, helmChecks, prevInstalled>>

\* require_sudo, then show_mode (which only logs)
RequireSudo ==
    /\ pc = "require_sudo"
    /\ IF euidRoot THEN Goto("ensure_hosts") ELSE Abort(1, "no_privilege")
    /\ UNCHANGED <<hostVars, auditVars, credVars, nodeVars, podVars, runNo, euidRoot, rollout, seen,
                   steps, satisfied, helmChecks, prevInstalled>>

\* the append: run(["bash", "-c", "echo ... >> /etc/hosts"], check=False)
AppendHosts(appendOk) ==
    /\ Spawn({"hostname", "grep_hosts", "append_hosts"}, {"append_hosts"}, {})
    /\ IF appendOk
       THEN hostsFile' = EchoAppend(hostsFile, HostsLine(PrimaryIp, HostName))
       ELSE UNCHANGED hostsFile

\* (variant: the append is not under `if grep.returncode != 0`)
HostsEntryFoundAppends(appendOk) ==
    /\ satisfied' = satisfied \cup {"hosts"}
    /\ AppendHosts(appendOk)
\* grep exited 0: nothing to do
HostsEntryFound(appendOk) ==
    /\ Spawn({"hostname", "grep_hosts"}, {}, {})
    /\ satisfied' = satisfied \cup {"hosts"}
    /\ UNCHANGED hostsFile

EnsureHosts ==
    /\ pc = "ensure_hosts"
    /\ Enter("ensure_hosts")
    /\ \E appendOk \in BOOLEAN :
         IF GrepHosts(hostsFile, HostName)
         THEN HostsEntryFound(appendOk)
         ELSE /\ AppendHosts(appendOk)
              /\ UNCHANGED satisfied
    /\ Goto("install_or_verify")
    /\ UNCHANGED <<k3sActive, kcfg, k3sBin, kubectlBin, shimExists, tmplExists, helmBin,
                   release, credVars, nodeVars, podVars, runNo, euidRoot, rollout, seen, helmChecks,
                   prevInstalled>>

\* (variant: the installer run with check=False, its failure ignored)
InstallerFailureIgnored ==
    /\ event' = "k3s_installer_failed"
    /\ pc' = "cred_wait"
    /\ UNCHANGED <<exitCode, k3sActive, kcfg, k3sBin>>
\* run(..., check=True) of the installer raises CalledProcessError
InstallerFailed ==
    /\ Abort(1, "k3s_installer_failed")
    /\ UNCHANGED <<k3sActive, kcfg, k3sBin>>

\* install_or_verify up to the credential wait
InstallOrVerify ==
    /\ pc = "install_or_verify"
    /\ Enter("install_or_verify")
    /\ IF k3sActive /\ kcfg
       THEN /\ Spawn({"systemctl_is_active"}, {}, {})
            /\ satisfied' = satisfied \cup {"k3s"}
            /\ Goto("cred_wait")
            /\ UNCHANGED <<k3sActive, kcfg, k3sBin>>
       ELSE /\ Spawn({"systemctl_is_active", "k3s_installer"}, {"k3s_installer"}, {})
            /\ UNCHANGED satisfied
            /\ \E ok \in BOOLEAN, file \in {kcfg, TRUE}, bin \in {k3sBin, TRUE} :
                 IF ok
                 THEN /\ k3sActive' = TRUE
                      /\ kcfg' = file
                      /\ k3sBin' = bin
                      /\ Goto("cred_wait")
                 ELSE InstallerFailed
    /\ UNCHANGED <<hostsFile, kubectlBin, shimExists, tmplExists, helmBin, release,
                   credVars, nodeVars, podVars, runNo, euidRoot, rollout, seen, helmChecks,
                   prevInstalled>>

\* one iteration's `if kcfg.exists(): break`
CredProbe ==
    /\ pc = "cred_wait"
    /\ credProbes' = credProbes + 1
    /\ IF kcfg
       THEN /\ credOk' = TRUE
            /\ seen' = seen \cup {"credential"}
            /\ Goto("cred_done")
       ELSE /\ UNCHANGED <<credOk, seen>>
            /\ Goto("cred_sleep")
    /\ UNCHANGED <<hostVars, auditVars, nodeVars, podVars, runNo, euidRoot, rollout, steps,
                   satisfied, helmChecks, prevInstalled, credSleeps>>

\* time.sleep(2); the cluster runtime may write its credential file meanwhile
CredSleep ==
    /\ pc = "cred_sleep"
    /\ credSleeps' = credSleeps + 1
    /\ kcfg' \in {kcfg, TRUE}
    /\ IF RangeExhausted(credProbes) THEN Goto("cred_done") ELSE Goto("cred_wait")
    /\ UNCHANGED <<hostsFile, k3sActive, k3sBin, kubectlBin, shimExists, tmplExists,
                   helmBin, release, auditVars, nodeVars, podVars, runNo, euidRoot, rollout, seen,
                   steps, satisfied, helmChecks, prevInstalled, credProbes, credOk>>

\* (variant: the for-else only logs, without sys.exit)
CredTimedOutLogged == Goto("fix_perms")
\* the for-else of the credential wait: Log.error and sys.exit(1)
CredTimedOut == Abort(1, "cred_timeout")

\* after the loop: `break` goes on, the for-else reports the timeout
CredWaitEnd ==
    /\ pc = "cred_done"
    /\ IF credOk THEN Goto("fix_perms") ELSE CredTimedOut
    /\ credProbes' = 0 /\ credSleeps' = 0 /\ credOk' = FALSE
    /\ UNCHANGED <<hostVars, auditVars, nodeVars, podVars, runNo, euidRoot, rollout, seen, steps,
                   satisfied, helmChecks, prevInstalled>>

\* _fix_kubeconfig_permissions with ensure_kube_dir
FixPerms ==
    /\ pc = "fix_perms"
    /\ IF kcfg
       THEN Spawn({"mkdir_kube", "chown_kube", "chmod_kube", "cp_kubeconfig",
                   "chown_dest", "chmod_dest"},
                  {"mkdir_kube", "chown_kube", "chmod_kube", "cp_kubeconfig",
                   "chown_dest", "chmod_dest"}, {})
       ELSE UNCHANGED auditVars
    /\ Goto("node_probe")
    /\ UNCHANGED <<hostVars, credVars, nodeVars, podVars, runNo, euidRoot, rollout, seen, steps,
                   satisfied, helmChecks, prevInstalled>>

\* one iteration of _wait_nodes_ready up to the counts
NodeProbe ==
    /\ pc = "node_probe"
    /\ IF k3sBin
       THEN /\ \E rc \in {0, 1}, obs \in SeqsUpTo(NodeStatuses, MaxNodes) :
                 /\ rc # 0 => obs = <<>>
                 /\ nodeRc' = rc
                 /\ nodeObs' = obs
                 /\ nodeConv' = NodesConverged(NodesStdout(obs))
            /\ nodeProbes' = nodeProbes + 1
            /\ Spawn({"k3s_get_nodes"}, {}, {})
            /\ Goto("node_checked")
       ELSE /\ Abort(1, "cmd_not_found")
            /\ UNCHANGED <<auditVars, nodeProbes, nodeObs, nodeRc, nodeConv>>
    /\ UNCHANGED <<hostVars, credVars, podVars, runNo, euidRoot, rollout, seen, steps, satisfied,
                   helmChecks, prevInstalled, nodeSleeps, nodeResult>>

\* (variant: the sleep placed before the test, so it also runs on success)
NodesReadySleepFirst ==
    /\ nodeResult' = "converged"
    /\ nodeSleeps' = nodeSleeps + 1
    /\ Goto("node_done")
\* Log.success and return, without sleeping
NodesReady ==
    /\ nodeResult' = "converged"
    /\ UNCHANGED nodeSleeps
    /\ Goto("node_done")

\* (variant: the timeout ends the process, as the credential timeout does)
NodesTimedOutFatal ==
    /\ nodeResult' = "timedout"
    /\ Abort(1, "node_timeout")
\* the range is used up: Log.warn, and the method returns normally
NodesTimedOut ==
    /\ nodeResult' = "timedout"
    /\ Goto("node_done")

\* `if total > 0 and ready == total: return`, else time.sleep(2) and the next
\* iteration, if the range has one
NodeBranch ==
    /\ pc = "node_checked"
    /\ IF nodeConv
       THEN /\ NodesReady
            /\ UNCHANGED <<nodeObs, nodeRc>>
       ELSE /\ nodeSleeps' = nodeSleeps + 1
            /\ nodeObs' = <<>>
            /\ nodeRc' = 0
            /\ IF RangeExhausted(nodeProbes)
               THEN NodesTimedOut
               ELSE UNCHANGED nodeResult /\ Goto("node_probe")
    /\ UNCHANGED <<hostVars, auditVars, credVars, podVars, runNo, euidRoot, rollout, seen, steps,
                   satisfied, helmChecks, prevInstalled, nodeProbes, nodeConv>>

\* _wait_nodes_ready returns (after Log.success or Log.warn); its locals go
NodeReturn ==
    /\ pc = "node_done"
    /\ nodeProbes' = 0 /\ nodeSleeps' = 0 /\ nodeObs' = <<>> /\ nodeRc' = 0
    /\ nodeConv' = FALSE
    /\ Goto("ensure_kubectl")
    /\ UNCHANGED <<hostVars, auditVars, credVars, podVars, runNo, euidRoot, rollout, seen, steps,
                   satisfied, helmChecks, prevInstalled, nodeResult>>

EnsureKubectl ==
    /\ pc = "ensure_kubectl"
    /\ Enter("ensure_kubectl")
    /\ IF kubectlBin
       THEN /\ satisfied' = satisfied \cup {"kubectl"}
            /\ UNCHANGED <<auditVars, kubectlBin, shimExists>>
       ELSE IF ~k3sBin
       THEN UNCHANGED <<auditVars, satisfied, kubectlBin, shimExists>>
       ELSE IF shimExists
       THEN /\ satisfied' = satisfied \cup {"shim"}
            /\ UNCHANGED <<auditVars, kubectlBin, shimExists>>
       ELSE /\ Spawn({"write_shim"}, {}, {})
            /\ UNCHANGED satisfied
            /\ \E ok \in BOOLEAN, onPath \in BOOLEAN :
                 /\ shimExists' = ok
                 /\ kubectlBin' = (ok /\ onPath)
    /\ Goto("apply_bootstrap_yaml")
    /\ UNCHANGED <<hostsFile, k3sActive, kcfg, k3sBin, tmplExists, helmBin, release,
                   credVars, nodeVars, podVars, runNo, euidRoot, rollout, seen, helmChecks,
                   prevInstalled>>

ApplyBootstrapYaml ==
    /\ pc = "apply_bootstrap_yaml"
    /\ Enter("apply_bootstrap_yaml")
    /\ IF ~tmplExists
       THEN UNCHANGED auditVars /\ Goto("ensure_helm")
       ELSE IF kubectlBin
       THEN /\ Spawn({"kubectl_apply"}, {"kubectl_apply"}, {"kubectl_apply"})
            /\ Goto("ensure_helm")
       ELSE /\ Spawn({}, {"kubectl_apply"}, {})
            /\ Abort(1, "cmd_not_found")
    /\ UNCHANGED <<hostVars, credVars, nodeVars, podVars, runNo, euidRoot, rollout, seen, satisfied,
                   helmChecks, prevInstalled>>

\* (variant: no second presence check after the installer)
HelmNotRechecked(present) == Goto("install")
\* `if not shutil.which("helm"): sys.exit(2)` after the installer
HelmRecheck(present) == IF present THEN Goto("install") ELSE Abort(2, "helm_absent")

EnsureHelm ==
    /\ pc = "ensure_helm"
    /\ Enter("ensure_helm")
    /\ IF helmBin
       THEN /\ helmChecks' = helmChecks + 1
            /\ satisfied' = satisfied \cup {"helm"}
            /\ seen' = seen \cup {"helm"}
            /\ Goto("install")
            /\ UNCHANGED <<auditVars, helmBin>>
       ELSE /\ Spawn({"helm_installer"}, {"helm_installer"}, {})
            /\ UNCHANGED satisfied
            /\ \E ok \in BOOLEAN, present \in BOOLEAN :
                 IF ~ok
                 THEN /\ helmChecks' = helmChecks + 1
                      /\ Abort(1, "helm_installer_failed")
                      /\ UNCHANGED <<helmBin, seen>>
                 ELSE /\ helmChecks' = helmChecks + 2
                      /\ helmBin' = present
                      /\ seen' = IF present THEN seen \cup {"helm"} ELSE seen
                      /\ HelmRecheck(present)
    /\ UNCHANGED <<hostsFile, k3sActive, kcfg, k3sBin, kubectlBin, shimExists,
                   tmplExists, release, credVars, nodeVars, podVars, runNo, euidRoot,
                   rollout, prevInstalled>>

\* helm repo add, helm repo update, helm upgrade --install (check=True)
InstallChart ==
    /\ Spawn({"helm_status", "helm_repo_add", "helm_repo_update", "helm_install"},
             {"helm_repo_add", "helm_repo_update", "helm_install"},
             {"helm_status", "helm_install"})
    /\ \E ok \in BOOLEAN, left \in BOOLEAN :
         IF ok
         THEN release' = TRUE /\ Goto("wait_ready")
         ELSE release' = left /\ Abort(1, "chart_install_failed")

\* (variant: the `return` after the log line is missing)
ReleasePresentFallThrough ==
    /\ satisfied' = satisfied \cup {"release"}
    /\ InstallChart
\* `if status_cp.returncode == 0:` log and return
ReleasePresent ==
    /\ Spawn({"helm_status"}, {}, {"helm_status"})
    /\ satisfied' = satisfied \cup {"release"}
    /\ Goto("wait_ready")
    /\ UNCHANGED release

\* RancherDeployment.install
RancherInstall ==
    /\ pc = "install"
    /\ Enter("install")
    /\ IF release
       THEN ReleasePresent
       ELSE /\ UNCHANGED satisfied
            /\ InstallChart
    /\ UNCHANGED <<hostsFile, k3sActive, kcfg, k3sBin, kubectlBin, shimExists,
                   tmplExists, helmBin, credVars, nodeVars, podVars, runNo, euidRoot, rollout, seen,
                   helmChecks, prevInstalled>>

\* (variant: no `except subprocess.CalledProcessError` around the check)
RolloutFailedUncaught ==
    /\ rollout' = "failed"
    /\ Abort(1, "rollout_failed")
\* `except subprocess.CalledProcessError: pass`, on to the pod-phase loop
RolloutFailed ==
    /\ rollout' = "failed"
    /\ Goto("pod_loop")

\* wait_ready up to the pod-phase loop
RolloutStatus ==
    /\ pc = "wait_ready"
    /\ Enter("wait_ready")
    /\ IF ~kubectlBin
       THEN /\ Spawn({}, {"rollout_status"}, {})
            /\ Abort(1, "cmd_not_found")
            /\ UNCHANGED <<podResult, rollout>>
       ELSE /\ Spawn({"rollout_status"}, {"rollout_status"}, {"rollout_status"})
            /\ \E ok \in BOOLEAN :
                 IF ok
                 THEN /\ rollout' = "ok"
                      /\ podResult' = "rolled_out"
                      /\ Goto("verify_cluster")
                 ELSE /\ UNCHANGED podResult
                      /\ RolloutFailed
    /\ UNCHANGED <<hostVars, credVars, nodeVars, runNo, euidRoot, seen, satisfied,
                   helmChecks, prevInstalled, elapsed, podProbes, podSleeps, podObs, podRc,
                   podConv>>

\* `while time.time() < deadline`: one pod-phase query
PodProbe ==
    /\ pc = "pod_loop"
    /\ elapsed < TimeoutSec
    /\ \E rc \in {0, 1}, obs \in SeqsUpTo(PodPhases, MaxPods) :
         /\ rc # 0 => obs = <<>>
         /\ podRc' = rc
         /\ podObs' = obs
         /\ podConv' = PodsConverged(PodsStdout(obs))
    /\ podProbes' = podProbes + 1
    /\ Spawn({"get_pods"}, {}, {"get_pods"})
    /\ Goto("pod_checked")
    /\ UNCHANGED <<hostVars, credVars, nodeVars, runNo, euidRoot, rollout, seen, steps, satisfied,
                   helmChecks, prevInstalled, elapsed, podSleeps, podResult>>

\* the deadline has passed: Log.warn and return
PodTimeout ==
    /\ pc = "pod_loop"
    /\ ~(elapsed < TimeoutSec)
    /\ podResult' = "timedout"
    /\ Goto("pod_done")
    /\ UNCHANGED <<hostVars, auditVars, credVars, nodeVars, runNo, euidRoot, rollout, seen, steps,
                   satisfied, helmChecks, prevInstalled, elapsed, podProbes, podSleeps,
                   podObs, podRc, podConv>>

\* (variant: the deadline is computed anew in every iteration)
SleptDeadlineMoved(t) == t
\* time.sleep(3) seen from `time.time() < deadline`: the clock moves on by the
\* sleep alone, the slowest clock there is, so the most iterations
Slept(t) == t + PodSleepSec

\* `if phases and all(...): return`, else time.sleep(3)
PodBranch ==
    /\ pc = "pod_checked"
    /\ IF podConv
       THEN /\ podResult' = "converged"
            /\ Goto("pod_done")
            /\ UNCHANGED <<elapsed, podSleeps, podObs, podRc>>
       ELSE /\ podSleeps' = podSleeps + 1
            /\ podObs' = <<>>
            /\ podRc' = 0
            /\ elapsed' = Slept(elapsed)
            /\ UNCHANGED podResult
            /\ Goto("pod_loop")
    /\ UNCHANGED <<hostVars, auditVars, credVars, nodeVars, runNo, euidRoot, rollout, seen, steps,
                   satisfied, helmChecks, prevInstalled, podProbes, podConv>>

\* wait_ready returns from the pod-phase path; its locals go
PodReturn ==
    /\ pc = "pod_done"
    /\ elapsed' = 0 /\ podProbes' = 0 /\ podSleeps' = 0 /\ podObs' = <<>> /\ podRc' = 0
    /\ podConv' = FALSE
    /\ Goto("verify_cluster")
    /\ UNCHANGED <<hostVars, auditVars, credVars, nodeVars, runNo, euidRoot, rollout, seen, steps,
                   satisfied, helmChecks, prevInstalled, podResult>>

\* verify_cluster, access, final; then run() returns and the process exits 0
VerifyCluster ==
    /\ pc = "verify_cluster"
    /\ IF kubectlBin
       THEN /\ steps' = steps \o <<"verify_cluster", "access", "final">>
            /\ Spawn({"kubectl_get_nodes"}, {"kubectl_get_nodes"}, {"kubectl_get_nodes"})
            /\ pc' = "done"
            /\ exitCode' = 0
            /\ UNCHANGED event
       ELSE /\ Enter("verify_cluster")
            /\ Spawn({}, {"kubectl_get_nodes"}, {})
            /\ Abort(1, "cmd_not_found")
    /\ UNCHANGED <<hostVars, credVars, nodeVars, podVars, runNo, euidRoot, rollout, seen, satisfied,
                   helmChecks, prevInstalled>>

\* the operator invokes the program again on the same host
Restart ==
    /\ pc = "done"
    /\ runNo < MaxRuns
    /\ runNo' = runNo + 1
    /\ euidRoot' \in BOOLEAN
    /\ prevInstalled' = (prevInstalled \/ (issued["helm_install"] > 0
                                            /\ event # "chart_install_failed"))
    /\ StartProcess
    /\ UNCHANGED hostVars

Next ==
    \/ Construct
    \/ RequireSudo
    \/ EnsureHosts
    \/ InstallOrVerify
    \/ CredProbe
    \/ CredSleep
    \/ CredWaitEnd
    \/ FixPerms
    \/ NodeProbe
    \/ NodeBranch
    \/ NodeReturn
    \/ EnsureKubectl
    \/ ApplyBootstrapYaml
    \/ EnsureHelm
    \/ RancherInstall
    \/ RolloutStatus
    \/ PodProbe
    \/ PodTimeout
    \/ PodBranch
    \/ PodReturn
    \/ VerifyCluster
    \/ Restart

Spec == Init /\ [][Next]_vars

\* the steps of one process: everything but the operator's next invocation
Step ==
    \/ Construct
    \/ RequireSudo
    \/ EnsureHosts
    \/ InstallOrVerify
    \/ CredProbe
    \/ CredSleep
    \/ CredWaitEnd
    \/ FixPerms
    \/ NodeProbe
    \/ NodeBranch
    \/ NodeReturn
    \/ EnsureKubectl
    \/ ApplyBootstrapYaml
    \/ EnsureHelm
    \/ RancherInstall
    \/ RolloutStatus
    \/ PodProbe
    \/ PodTimeout
    \/ PodBranch
    \/ PodReturn
    \/ VerifyCluster

\* the script is one sequential thread: every command it spawns returns and
\* every sleep ends, so a process that has a next statement executes it.
\* Nothing obliges the operator to invoke the program again.
\* a host the program has never run on: no cluster runtime, no kubectl, no
\* helm, no release, a hosts file with the loopback line only
FreshHost ==
    /\ Init
    /\ hostsFile = LoopbackLine \o <<NL>>
    /\ ~k3sActive /\ ~kcfg /\ ~k3sBin /\ ~kubectlBin /\ ~shimExists /\ ~helmBin
    /\ ~release

\* the runs on a fresh host, each process running to its end
FairSpec == FreshHost /\ [][Next]_vars /\ WF_vars(Step)

TypeOK ==
    /\ pc \in {"start", "require_sudo", "ensure_hosts", "install_or_verify", "cred_wait",
               "cred_sleep", "cred_done", "fix_perms", "node_probe", "node_checked",
               "node_done", "ensure_kubectl", "apply_bootstrap_yaml", "ensure_helm",
               "install", "wait_ready", "pod_loop", "pod_checked", "pod_done",
               "verify_cluster", "done"}
    /\ exitCode \in {-1, 0, 1, 2}
    /\ runNo \in 1..MaxRuns
    /\ issued \in [Commands -> Nat]
    /\ polled \subseteq Probes
    /\ logged \subseteq Commands \cup Probes
    /\ envd \subseteq Commands \cup Probes
    /\ rollout \in {"none", "ok", "failed"}
    /\ seen \subseteq {"credential", "helm"}

(* ------------------------------- claims ------------------------------- *)
\* what ends a process before run() returns: the three sys.exit calls, a
\* check=True command that failed, a command whose binary is not on the PATH
FatalEvents == {"no_privilege", "cred_timeout", "helm_absent", "k3s_installer_failed",
                "helm_installer_failed", "chart_install_failed", "cmd_not_found"}
\* the fatal failures of a provisioning step
StepFailures == {"cred_timeout", "helm_absent", "k3s_installer_failed",
                 "helm_installer_failed", "chart_install_failed"}

NoCommandIssued == polled = {} /\ \A c \in ExternalCommands : issued[c] = 0
AllReady(obs) == obs # <<>> /\ \A i \in 1..Len(obs) : obs[i] = "Ready"
AllRunning(obs) == obs # <<>> /\ \A i \in 1..Len(obs) : obs[i] = "Running"

\* C1: a process started without elevated privilege spawns no external
\* command at any point of its life, and ends with exit code 1.
C1_NoCommandWithoutPrivilege ==
    ~euidRoot => /\ NoCommandIssued
                 /\ pc = "done" => exitCode = 1

\* C2: in a run whose release-presence check reports the release present the
\* chart install command is not issued; so a run that follows a run which
\* installed the release issues no chart install.
C2_NoInstallWhenReleasePresent ==
    /\ "release" \in satisfied => issued["helm_install"] = 0
    /\ prevInstalled => issued["helm_install"] = 0
C2_Witness ==
    /\ runNo = 2 /\ prevInstalled
    /\ pc = "done" /\ exitCode = 0
    /\ "release" \in satisfied /\ issued["helm_status"] = 1

\* C3: the node-readiness wait counts an attempt as converged exactly when the
\* listing shows at least one node and every node shown is in the Ready
\* status (a NotReady node does not count).
C3_ConvergedIffAllReady ==
    pc = "node_checked" => (nodeConv <=> AllReady(nodeObs))

\* C4: neither attempt-bounded wait probes more than MaxAttempts times, and a
\* wait whose probe never succeeded reports its timeout after exactly
\* MaxAttempts probes.
C4_TimeoutAfterMaxAttempts ==
    /\ credProbes <= MaxAttempts /\ nodeProbes <= MaxAttempts
    /\ pc = "cred_wait" => credProbes < MaxAttempts
    /\ pc = "node_probe" => nodeProbes < MaxAttempts
    /\ (pc = "cred_done" /\ ~credOk) => credProbes = MaxAttempts
    /\ (pc = "node_done" /\ nodeResult = "timedout") => nodeProbes = MaxAttempts
C4_Witness ==
    /\ pc = "node_done" /\ nodeResult = "timedout"
    /\ nodeProbes = MaxAttempts /\ nodeSleeps = MaxAttempts

\* C5: a wait whose probe first succeeds on attempt k ends right there, after
\* k probes and k-1 sleeps.
C5_SuccessAfterKProbes ==
    /\ credOk => /\ pc = "cred_done"
                 /\ credProbes \in 1..MaxAttempts
                 /\ credSleeps = credProbes - 1
    /\ nodeConv => pc \in {"node_checked", "node_done"}
    /\ (pc = "node_done" /\ nodeResult = "converged") =>
           /\ nodeProbes \in 1..MaxAttempts
           /\ nodeSleeps = nodeProbes - 1
    /\ pc = "node_checked" => nodeSleeps = nodeProbes - 1
    /\ pc = "cred_sleep" => credSleeps = credProbes - 1
C5_Witness ==
    /\ pc = "node_done" /\ nodeResult = "converged"
    /\ nodeProbes = 3 /\ nodeSleeps = 2

\* C6: the pod-phase wait counts an attempt as converged exactly when the list
\* of phases is non-empty and every phase is Running.
C6_ConvergedIffAllRunning ==
    pc = "pod_checked" => (podConv <=> AllRunning(podObs))
C6_Witness ==
    pc = "pod_checked" /\ podObs = <<"Running", "Running">> /\ podConv

\* C7: the package-manager installer is not issued when the presence check
\* finds the package manager and is issued exactly once when it does not; when
\* the check after the install attempt still does not find it, the run ends
\* there with exit code 2, so no later step runs without it.
C7_PackageManagerStep ==
    /\ "helm" \in satisfied => issued["helm_installer"] = 0
    /\ (helmChecks >= 1 /\ "helm" \notin satisfied) => issued["helm_installer"] = 1
    /\ (helmChecks = 2 /\ ~helmBin) =>
           /\ pc = "done" /\ exitCode = 2
           /\ steps = SubSeq(AllSteps, 1, 5)
    /\ "install" \in {steps[i] : i \in 1..Len(steps)} => helmBin
C7_Witness ==
    /\ helmChecks = 2 /\ ~helmBin
    /\ issued["helm_installer"] = 1
    /\ pc = "done" /\ exitCode = 2

\* C8: a run ends with status 0, 1 or 2; 1 exactly for missing privilege or a
\* credential-file timeout, 2 exactly for a package manager still absent
\* after its install attempt, 0 otherwise.
C8_ExitStatusCauses ==
    pc = "done" =>
        /\ exitCode \in {0, 1, 2}
        /\ exitCode = 1 <=> event \in {"no_privilege", "cred_timeout"}
        /\ exitCode = 2 <=> event = "helm_absent"

\* C9: a run in which a readiness wait timed out and nothing fatal happened
\* executes every step, in order, and ends with exit code 0.
C9_TimeoutNotFatal ==
    (/\ pc = "done"
     /\ nodeResult = "timedout" \/ podResult = "timedout"
     /\ event \notin FatalEvents) => (exitCode = 0 /\ steps = AllSteps)
C9_Witness ==
    /\ pc = "done" /\ exitCode = 0
    /\ nodeResult = "timedout" /\ podResult = "timedout"
    /\ steps = AllSteps

\* C10: once a step has failed fatally the process is over with a non-zero
\* status, and it neither spawns a command nor enters a step afterwards.
C10_FatalHalts ==
    /\ [](event \in StepFailures => (pc = "done" /\ exitCode \in {1, 2}))
    /\ [][(event \in StepFailures /\ runNo' = runNo) =>
             (issued' = issued /\ polled' = polled /\ steps' = steps)]_vars
C10_Witness ==
    /\ pc = "done" /\ exitCode = 1
    /\ event = "chart_install_failed"
    /\ Len(steps) = 6

StepsSet == {steps[i] : i \in 1..Len(steps)}
AllSpawned == polled \cup {c \in ExternalCommands : issued[c] > 0}

\* C11: every run that reaches the management-UI step issues helm repo add
\* and helm repo update, whether or not the release is already present.
C11_RepoRefreshedEveryRun ==
    "install" \in StepsSet =>
        (issued["helm_repo_add"] = 1 /\ issued["helm_repo_update"] = 1)

\* C12: every external command that has been spawned was logged, with its
\* argument list, before it was spawned.
C12_EveryCommandLogged == AllSpawned \subseteq logged

\* C16: a node-readiness or pod-phase probe that fails (non-zero exit, or the
\* command cannot be executed) never counts as convergence and never ends the
\* run: a run that ends inside the node-readiness step ends for the installer
\* or the credential wait, never for the probe.
C16_ProbeFailureTolerated ==
    /\ (pc = "node_checked" /\ nodeRc # 0) => ~nodeConv
    /\ (pc = "pod_checked" /\ podRc # 0) => ~podConv
    /\ (pc = "done" /\ Len(steps) > 0 /\ steps[Len(steps)] = "install_or_verify")
          => event \in {"k3s_installer_failed", "cred_timeout"}

\* C19: every external command spawned after startup (everything but the
\* host-address query of the constructor) receives the derived environment
\* that carries the credential path.
C19_EnvPassedToEveryCommand == (AllSpawned \ {"hostname_I"}) \subseteq envd

PodLoopLabels == {"pod_loop", "pod_checked", "pod_done"}
PodLoopEntered == pc \in PodLoopLabels \/ podResult \in {"converged", "timedout"}

\* C13: the rollout-status check is invoked at most once in a run, exactly
\* once when its outcome is known; the pod-phase loop is entered exactly when
\* the check failed; after a successful check no pod query is issued; after a
\* failed one the run goes on to the end and exits 0.
C13_RolloutOnceThenFallback ==
    /\ issued["rollout_status"] <= 1
    /\ rollout # "none" => issued["rollout_status"] = 1
    /\ PodLoopEntered <=> rollout = "failed"
    /\ "get_pods" \in polled => rollout = "failed"
    /\ rollout = "ok" => "get_pods" \notin polled /\ podResult = "rolled_out"
    /\ (rollout = "failed" /\ pc = "done") =>
          /\ exitCode = 0 /\ steps = AllSteps
          /\ "get_pods" \in polled

C13_Witness ==
    /\ pc = "done" /\ exitCode = 0
    /\ rollout = "failed" /\ podResult = "timedout"
    /\ issued["rollout_status"] = 1 /\ "get_pods" \in polled

\* C17: the steps run in one fixed order, so when the chart install command
\* has been issued, this run has seen the credential file present in the
\* credential wait and the package manager present in a presence check.
C17_InstallAfterPrerequisites ==
    /\ steps = SubSeq(AllSteps, 1, Len(steps))
    /\ issued["helm_install"] > 0 =>
          /\ seen = {"credential", "helm"}
          /\ {"install_or_verify", "ensure_helm"} \subseteq StepsSet

C17_Witness ==
    /\ issued["helm_install"] = 1
    /\ "helm" \notin satisfied /\ "k3s" \notin satisfied
    /\ seen = {"credential", "helm"}

\* how many times the text `sub` occurs in `s`: every successful append adds
\* one occurrence of the entry to the hosts file
Occurrences(sub, s) ==
    Cardinality({i \in 0..(Len(s) - Len(sub)) : SubSeq(s, i + 1, i + Len(sub)) = sub})

GatedActions == {"append_hosts", "k3s_installer", "write_shim", "helm_installer"}

\* C15: a gated action is not performed in a run whose idempotency check
\* reported the goal satisfied (hosts entry found; service active and
\* credential file present; kubectl on the PATH or the shim target present;
\* helm found), and is performed at most once in a run otherwise.
C15_GatedActionsSkippedOrOnce ==
    /\ "hosts" \in satisfied => issued["append_hosts"] = 0
    /\ "k3s" \in satisfied => issued["k3s_installer"] = 0
    /\ ("kubectl" \in satisfied \/ "shim" \in satisfied) => issued["write_shim"] = 0
    /\ "helm" \in satisfied => issued["helm_installer"] = 0
    /\ \A a \in GatedActions : issued[a] <= 1

C15_Witness ==
    /\ pc = "done" /\ exitCode = 0
    /\ satisfied = {"hosts", "k3s", "kubectl", "helm", "release"}
    /\ \A a \in GatedActions : issued[a] = 0

\* C18: over the runs on one host the hosts entry is appended at most once:
\* once an append has succeeded, the check of every later run finds the entry.
C18_HostsEntryAppendedOnce ==
    LET entry == HostsLine(PrimaryIp, HostName)
    IN  /\ Occurrences(entry, hostsFile) <= 1
        /\ (Occurrences(entry, hostsFile) >= 1 /\ pc = "ensure_hosts")
              => GrepHosts(hostsFile, HostName)

\* the most pod-phase queries one wait can make: one per sleep interval of
\* the timeout
MaxPodProbes == (TimeoutSec + PodSleepSec - 1) \div PodSleepSec

\* C14: every run terminates: each wait loop makes a bounded number of probes
\* (the two counted loops at most MaxAttempts, the deadline loop at most one
\* per sleep interval of the timeout), and a started process eventually exits.
C14_EveryRunTerminates ==
    /\ [](/\ credProbes <= MaxAttempts
          /\ nodeProbes <= MaxAttempts
          /\ podProbes <= MaxPodProbes)
    /\ (pc # "done") ~> (pc = "done")

C14_Witness ==
    /\ pc = "pod_done" /\ podResult = "timedout" /\ nodeResult = "timedout"
    /\ podProbes = MaxPodProbes

====
